---- MODULE Spec2Model ----
(***************************************************************************)
(* The video ingestion pipeline of handlerUploadVideo, with its helpers    *)
(* getVideoAspectRatio, processVideoForFastStart, dbVideoToSignedVideo and *)
(* generatePresignedURL.                                                   *)
(*                                                                         *)
(* Go strings that the code builds or takes apart (storage keys, locators, *)
(* file paths) are sequences of one-character strings, so that Sprintf and *)
(* strings.Split are computed, not assumed.  A *string is a sequence of    *)
(* length 0 (nil) or 1 (pointer to the string).                            *)
(***************************************************************************)
EXTENDS Integers, Sequences, FiniteSets, TLC

\* ------------------------------------------------------------------ bounds
\* Number of handlerUploadVideo invocations that may be in flight at once.
NumReqs == 2
\* Longest persisted locator string handed to dbVideoToSignedVideo.
MaxLen == 4
\* Largest |width| and |height| handed to the classifier.
MaxDim == 50

\* --------------------------------------------------------- program constants
\* http.MaxBytesReader(w, r.Body, 1<<30) and ParseMultipartForm(1 << 30)
MaxUploadBytes == 1073741824
StatusOK == 200
StatusBadRequest == 400
StatusUnauthorized == 401
StatusInternalServerError == 500
\* time.Hour, in seconds, as passed to s3.WithPresignExpires
HourSeconds == 3600

Reqs == 1..NumReqs
Users == {"u1", "u2"}
\* The metadata store holds two records, one per user.
Videos == {"v1", "v2"}
OwnerOf(v) == IF v = "v1" THEN "u1" ELSE "u2"
\* cfg.s3Bucket
s3Bucket == <<"b", "k", "t">>

VARIABLES
    pc,        \* pc[r]: the statement of handlerUploadVideo invocation r is at
    loc,       \* loc[r]: the invocation's local variables and deferred calls
    resp,      \* resp[r]: <<>> or <<the response written>>
    hist,      \* hist[r]: what the invocation has done (steps, calls, inputs)
    db,        \* cfg.db: video id -> record
    s3,        \* the objects PutObject has stored
    disk,      \* local files: path -> content
    updLog,    \* the UpdateVideo calls that succeeded, in order
    cw, ch, cres,   \* classifier harness: probed width, height, result
    din, dout       \* locator harness: persisted VideoURL, decoding result

vars == <<pc, loc, resp, hist, db, s3, disk, updLog, cw, ch, cres, din, dout>>
pipeVars == <<pc, loc, resp, hist, db, s3, disk, updLog>>
classVars == <<cw, ch, cres>>
decVars == <<din, dout>>

\* ------------------------------------------------------------ string helpers
Comma == ","
Landscape == <<"l", "a", "n", "d", "s", "c", "a", "p", "e">>
Portrait == <<"p", "o", "r", "t", "r", "a", "i", "t">>
Other == <<"o", "t", "h", "e", "r">>
DotMp4 == <<".", "m", "p", "4">>

\* strings.Index(s, sep) for a one-character sep; 0 when absent (Go: -1).
IndexOf(s, sep) ==
    IF \E i \in 1..Len(s) : s[i] = sep
    THEN CHOOSE i \in 1..Len(s) : s[i] = sep /\ \A j \in 1..(i - 1) : s[j] # sep
    ELSE 0

RECURSIVE Split(_, _)
\* strings.Split(s, sep): the substrings between separators; Split("") = [""].
Split(s, sep) ==
    LET i == IndexOf(s, sep)
    IN  IF i = 0 THEN <<s>>
        ELSE <<SubSeq(s, 1, i - 1)>> \o Split(SubSeq(s, i + 1, Len(s)), sep)

\* ------------------------------------------------------------ MediaProbe
\* float64(width)/float64(height) >= num/den, by cross-multiplication.  The
\* quotient of two float64 integers is correctly rounded, so for dimensions
\* far below 2^53 the comparison with the literal num/den is the exact one.
RatioGE(width, height, num, den) ==
    IF height > 0 THEN width * den >= num * height
    ELSE width * den <= num * height

\* float64(width)/float64(height) <= num/den.
RatioLE(width, height, num, den) ==
    IF height > 0 THEN width * den <= num * height
    ELSE width * den >= num * height

\* What ffprobe can hand back: the command fails, prints something that is not
\* JSON, reports no stream, or reports a first stream of width x height.
ProbeOut(kind, width, height) == [kind |-> kind, width |-> width, height |-> height]

\* getVideoAspectRatio with the lower edge of the 16:9 band excluded
\* (ratio > 1.7 for ratio >= 1.7).
getVideoAspectRatioStrict(out) ==
    IF out.kind = "runError"
        THEN [ratio |-> "", err |-> "failed to run ffprobe"]
    ELSE IF out.kind = "badJSON"
        THEN [ratio |-> "", err |-> "failed to parse ffprobe output"]
    ELSE IF out.kind = "noStreams"
        THEN [ratio |-> "", err |-> "no streams found in video"]
    ELSE IF out.width = 0 \/ out.height = 0
        THEN [ratio |-> "", err |-> "invalid dimensions"]
    ELSE IF ~RatioLE(out.width, out.height, 17, 10) /\ RatioLE(out.width, out.height, 18, 10)
        THEN [ratio |-> "16:9", err |-> ""]
    ELSE IF RatioGE(out.width, out.height, 55, 100) /\ RatioLE(out.width, out.height, 58, 100)
        THEN [ratio |-> "9:16", err |-> ""]
    ELSE [ratio |-> "other", err |-> ""]

\* getVideoAspectRatio: the aspect label and the error ("" is nil).
getVideoAspectRatio(out) ==
    IF out.kind = "runError"
        THEN [ratio |-> "", err |-> "failed to run ffprobe"]
    ELSE IF out.kind = "badJSON"
        THEN [ratio |-> "", err |-> "failed to parse ffprobe output"]
    ELSE IF out.kind = "noStreams"
        THEN [ratio |-> "", err |-> "no streams found in video"]
    ELSE IF out.width = 0 \/ out.height = 0
        THEN [ratio |-> "", err |-> "invalid dimensions"]
    ELSE IF RatioGE(out.width, out.height, 17, 10) /\ RatioLE(out.width, out.height, 18, 10)
        THEN [ratio |-> "16:9", err |-> ""]
    ELSE IF RatioGE(out.width, out.height, 55, 100) /\ RatioLE(out.width, out.height, 58, 100)
        THEN [ratio |-> "9:16", err |-> ""]
    ELSE [ratio |-> "other", err |-> ""]

\* The switch on aspectRatio that picks the key prefix.
PrefixOf(aspectRatio) ==
    CASE aspectRatio = "16:9" -> Landscape
      [] aspectRatio = "9:16" -> Portrait
      [] OTHER -> Other

\* --------------------------------------------------------- FastStartRemuxer
\* os.CreateTemp("", "tubely-upload.mp4"): a name no other call is given.
TempName(r) == <<"tubely-upload.mp4", r>>

\* outputPath := filePath + ".processing"
OutputPath(filePath) == filePath \o <<".processing">>

\* processVideoForFastStart's return values for ffmpeg's exit status.
processVideoForFastStart(filePath, ffmpegOk) ==
    IF ffmpegOk THEN [path |-> OutputPath(filePath), err |-> ""]
    ELSE [path |-> <<>>, err |-> "failed to process video with ffmpeg"]

\* ------------------------------------------------------------- ObjectStore
\* s3Key := fmt.Sprintf("%s/%s.mp4", prefix, randomString)
S3Key(prefix, randomString) == prefix \o <<"/">> \o randomString \o DotMp4

\* The locator as the public object URL the earlier handler stored.
VideoURLOfHTTPS(bucket, key) == <<"https://">> \o bucket \o <<".s3.amazonaws.com/">> \o key

\* videoURL := fmt.Sprintf("%s,%s", cfg.s3Bucket, s3Key)
VideoURLOf(bucket, key) == bucket \o <<Comma>> \o key

\* generatePresignedURL: the URL the presign client returns for bucket and key
\* with the expiry, or the error.
generatePresignedURL(bucket, key, expire, presignOk) ==
    IF presignOk
    THEN [url |-> <<"https://">> \o bucket \o <<"/">> \o key \o <<"?X-Amz-Expires=", expire>>,
          err |-> ""]
    ELSE [url |-> <<>>, err |-> "failed to create presigned URL"]

\* dbVideoToSignedVideo with the field count checked as len(parts) < 2, so
\* that extra fields are dropped instead of reported.
dbVideoToSignedVideoLoose(video, presignOk) ==
    IF video.VideoURL = <<>> \/ video.VideoURL[1] = <<>>
    THEN [video |-> video, err |-> "", presigned |-> <<>>]
    ELSE LET parts == Split(video.VideoURL[1], Comma)
         IN  IF Len(parts) < 2
             THEN [video |-> video, err |-> "invalid video URL format", presigned |-> <<>>]
             ELSE LET p == generatePresignedURL(parts[1], parts[2], HourSeconds, presignOk)
                  IN  IF p.err # ""
                      THEN [video |-> video, err |-> "failed to generate presigned URL",
                            presigned |-> <<parts[1], parts[2]>>]
                      ELSE [video |-> [video EXCEPT !.VideoURL = <<p.url>>], err |-> "",
                            presigned |-> <<parts[1], parts[2]>>]

\* dbVideoToSignedVideo: the video returned, the error, and the (bucket, key)
\* handed to generatePresignedURL (<<>> when it is not called).
dbVideoToSignedVideo(video, presignOk) ==
    IF video.VideoURL = <<>> \/ video.VideoURL[1] = <<>>
    THEN [video |-> video, err |-> "", presigned |-> <<>>]
    ELSE LET parts == Split(video.VideoURL[1], Comma)
         IN  IF Len(parts) # 2
             THEN [video |-> video, err |-> "invalid video URL format", presigned |-> <<>>]
             ELSE LET p == generatePresignedURL(parts[1], parts[2], HourSeconds, presignOk)
                  IN  IF p.err # ""
                      THEN [video |-> video, err |-> "failed to generate presigned URL",
                            presigned |-> <<parts[1], parts[2]>>]
                      ELSE [video |-> [video EXCEPT !.VideoURL = <<p.url>>], err |-> "",
                            presigned |-> <<parts[1], parts[2]>>]

\* ----------------------------------------------------------------- request
\* mime.ParseMediaType on the declared Content-Type values the model sends:
\* the type is lower-cased and the parameters are dropped.
ContentTypes == {"video/mp4", "Video/MP4", "video/mp4; codecs=avc1", "image/png", ""}

ParseMediaType(contentType) ==
    CASE contentType = "video/mp4" -> [mediaType |-> "video/mp4", err |-> ""]
      [] contentType = "Video/MP4" -> [mediaType |-> "video/mp4", err |-> ""]
      [] contentType = "video/mp4; codecs=avc1" -> [mediaType |-> "video/mp4", err |-> ""]
      [] contentType = "image/png" -> [mediaType |-> "image/png", err |-> ""]
      [] OTHER -> [mediaType |-> "", err |-> "mime: no media type"]

\* Body lengths a request may have: exactly the limit, and one byte over.
BodyLens == {MaxUploadBytes, MaxUploadBytes + 1}

\* Reading a body of bodyLen bytes through http.MaxBytesReader(w, r.Body, n).
MaxBytesReaderOk(bodyLen, n) == bodyLen <= n

\* First streams ffprobe reports in the pipeline runs.
PipeDims == {<<1280, 720>>, <<720, 1280>>, <<1, 1>>, <<0, 720>>}
\* base64.RawURLEncoding of the 32 random bytes, shortened to one character.
RandomStrings == {<<"A">>, <<"B">>}

\* ------------------------------------------------------------------- disk
RemoveFile(d, path) == [q \in (DOMAIN d) \ {path} |-> d[q]]
WriteFile(d, path, content) ==
    [q \in (DOMAIN d) \cup {path} |-> IF q = path THEN content ELSE d[q]]

RECURSIVE RunDefers(_, _)
\* The deferred calls run last-in-first-out when the handler returns; only
\* os.Remove changes the disk (Close leaves the directory entry).
RunDefers(d, defers) ==
    IF defers = <<>> THEN d
    ELSE LET top == defers[Len(defers)]
             rest == SubSeq(defers, 1, Len(defers) - 1)
         IN  RunDefers(IF top.op = "Remove" THEN RemoveFile(d, top.arg) ELSE d, rest)

\* ------------------------------------------------------------------ state
NoVideo == [ID |-> "", UserID |-> "", VideoURL |-> <<>>]

\* The locals of an invocation that later statements read.
Loc0 ==
    [videoID |-> "", userID |-> "", video |-> NoVideo, mediaType |-> "",
     tempFile |-> <<>>, aspectRatio |-> "", processedFilePath |-> <<>>,
     prefix |-> <<>>, s3Key |-> <<>>, defers |-> <<>>]

Hist0 ==
    [trace |-> <<>>, user |-> "", vid |-> "", declared |-> "none", bodyLen |-> 0,
     probe |-> "", dims |-> <<>>, put |-> <<>>, putOk |-> FALSE, gets |-> 0, puts |-> 0, updates |-> 0]

Response(code, msg, video) == [code |-> code, msg |-> msg, video |-> video]

\* respondWithError(w, code, msg, err)
respondWithError(code, msg) == Response(code, msg, NoVideo)

\* respondWithJSON(w, code, payload)
respondWithJSON(code, video) == Response(code, "", video)

PipeInit ==
    /\ pc = [r \in Reqs |-> "idle"]
    /\ loc = [r \in Reqs |-> Loc0]
    /\ resp = [r \in Reqs |-> <<>>]
    /\ hist = [r \in Reqs |-> Hist0]
    /\ db = [v \in Videos |-> [ID |-> v, UserID |-> OwnerOf(v), VideoURL |-> <<>>]]
    /\ s3 = {}
    /\ disk = <<>>
    /\ updLog = <<>>

Init ==
    /\ PipeInit
    /\ cw = 0 /\ ch = 0 /\ cres = <<>>
    /\ din = <<>> /\ dout = <<>>

\* The step a statement of the handler takes is recorded in the trace.
Did(r, name) == [hist[r] EXCEPT !.trace = Append(@, name)]

\* "return": the response has been written, the deferred calls run against the
\* disk d, and the invocation is over.
Return(r, d, h, response) ==
    /\ pc' = [pc EXCEPT ![r] = "done"]
    /\ resp' = [resp EXCEPT ![r] = <<response>>]
    /\ disk' = RunDefers(d, loc[r].defers)
    /\ loc' = [loc EXCEPT ![r] = Loc0]
    /\ hist' = [hist EXCEPT ![r] = h]
    /\ UNCHANGED <<classVars, decVars>>

\* Fall through to the next statement with locals l and disk d.
Continue(r, next, l, d, h) ==
    /\ pc' = [pc EXCEPT ![r] = next]
    /\ loc' = [loc EXCEPT ![r] = l]
    /\ disk' = d
    /\ hist' = [hist EXCEPT ![r] = h]
    /\ UNCHANGED <<resp, classVars, decVars>>

\* ------------------------------------------------------ handlerUploadVideo
\* A request arrives; r.Body = http.MaxBytesReader(w, r.Body, 1<<30).
Begin(r) ==
    /\ pc[r] = "idle"
    /\ Continue(r, "ParseID", loc[r], disk, Did(r, "Begin"))
    /\ UNCHANGED <<db, s3, updLog>>

\* videoID, err := uuid.Parse(r.PathValue("videoID"))
ParseID(r) ==
    /\ pc[r] = "ParseID"
    /\ \E idString \in Videos \cup {"vX", "not-a-uuid"} :
        IF idString = "not-a-uuid"
        THEN Return(r, disk, Did(r, "ParseID"),
                    respondWithError(StatusBadRequest, "Invalid video ID"))
        ELSE Continue(r, "GetBearerToken", [loc[r] EXCEPT !.videoID = idString], disk,
                      [Did(r, "ParseID") EXCEPT !.vid = idString])
    /\ UNCHANGED <<db, s3, updLog>>

\* token, err := auth.GetBearerToken(r.Header)
GetBearerToken(r) ==
    /\ pc[r] = "GetBearerToken"
    /\ \E hasToken \in BOOLEAN :
        IF ~hasToken
        THEN Return(r, disk, Did(r, "GetBearerToken"),
                    respondWithError(StatusUnauthorized, "Couldn't find JWT"))
        ELSE Continue(r, "ValidateJWT", loc[r], disk, Did(r, "GetBearerToken"))
    /\ UNCHANGED <<db, s3, updLog>>

\* userID, err := auth.ValidateJWT(token, cfg.jwtSecret)
ValidateJWT(r) ==
    /\ pc[r] = "ValidateJWT"
    /\ \E subject \in Users \cup {"invalid"} :
        IF subject = "invalid"
        THEN Return(r, disk, Did(r, "ValidateJWT"),
                    respondWithError(StatusUnauthorized, "Couldn't validate JWT"))
        ELSE Continue(r, "GetVideo", [loc[r] EXCEPT !.userID = subject], disk,
                      [Did(r, "ValidateJWT") EXCEPT !.user = subject])
    /\ UNCHANGED <<db, s3, updLog>>

\* video, err := cfg.db.GetVideo(videoID)
GetVideo(r) ==
    /\ pc[r] = "GetVideo"
    /\ \E dbOk \in BOOLEAN :
        LET h == [Did(r, "GetVideo") EXCEPT !.gets = @ + 1]
        IN  IF ~dbOk \/ loc[r].videoID \notin Videos
            THEN Return(r, disk, h,
                        respondWithError(StatusInternalServerError, "Couldn't get video"))
            ELSE Continue(r, "CheckOwner", [loc[r] EXCEPT !.video = db[loc[r].videoID]],
                          disk, h)
    /\ UNCHANGED <<db, s3, updLog>>

\* CheckOwner with the comparison's result not acted on: the handler goes on to
\* parse the body whoever the caller is.
CheckOwnerIgnored(r) ==
    /\ pc[r] = "CheckOwner"
    /\ Continue(r, "ParseMultipartForm", loc[r], disk, Did(r, "CheckOwner"))
    /\ UNCHANGED <<db, s3, updLog>>

\* if video.UserID != userID
CheckOwner(r) ==
    /\ pc[r] = "CheckOwner"
    /\ IF loc[r].video.UserID # loc[r].userID
       THEN Return(r, disk, Did(r, "CheckOwner"),
                   respondWithError(StatusUnauthorized,
                                    "User not authorized to update this video"))
       ELSE Continue(r, "ParseMultipartForm", loc[r], disk, Did(r, "CheckOwner"))
    /\ UNCHANGED <<db, s3, updLog>>

\* err = r.ParseMultipartForm(1 << 30): reads the whole body through the
\* MaxBytesReader; a body that is not a multipart form fails as well.
ParseMultipartForm(r) ==
    /\ pc[r] = "ParseMultipartForm"
    /\ \E bodyLen \in BodyLens, formOk \in BOOLEAN :
        LET h == [Did(r, "ParseMultipartForm") EXCEPT !.bodyLen = bodyLen]
        IN  IF ~MaxBytesReaderOk(bodyLen, MaxUploadBytes) \/ ~formOk
            THEN Return(r, disk, h,
                        respondWithError(StatusBadRequest, "Couldn't parse form"))
            ELSE Continue(r, "FormFile", loc[r], disk, h)
    /\ UNCHANGED <<db, s3, updLog>>

\* file, header, err := r.FormFile("video"); defer file.Close()
FormFile(r) ==
    /\ pc[r] = "FormFile"
    /\ \E hasField \in BOOLEAN :
        IF ~hasField
        THEN Return(r, disk, Did(r, "FormFile"),
                    respondWithError(StatusBadRequest, "Couldn't get video file from form"))
        ELSE Continue(r, "CheckContentType",
                      [loc[r] EXCEPT !.defers = Append(@, [op |-> "Close", arg |-> <<"file">>])],
                      disk, Did(r, "FormFile"))
    /\ UNCHANGED <<db, s3, updLog>>

\* mediaType, _, err := mime.ParseMediaType(header.Header.Get("Content-Type"))
\* and the comparison with "video/mp4".
CheckContentType(r) ==
    /\ pc[r] = "CheckContentType"
    /\ \E contentType \in ContentTypes :
        LET parsed == ParseMediaType(contentType)
            h == [Did(r, "CheckContentType") EXCEPT !.declared = contentType]
        IN  IF parsed.err # ""
            THEN Return(r, disk, h,
                        respondWithError(StatusBadRequest, "Invalid Content-Type header"))
            ELSE IF parsed.mediaType # "video/mp4"
            THEN Return(r, disk, h,
                        respondWithError(StatusBadRequest,
                                         "Invalid file type. Only MP4 videos are allowed"))
            ELSE Continue(r, "CreateTemp", [loc[r] EXCEPT !.mediaType = parsed.mediaType],
                          disk, h)
    /\ UNCHANGED <<db, s3, updLog>>

\* tempFile, err := os.CreateTemp("", "tubely-upload.mp4");
\* defer tempFile.Close(); defer os.Remove(tempFile.Name())
CreateTemp(r) ==
    /\ pc[r] = "CreateTemp"
    /\ \E ok \in BOOLEAN :
        IF ~ok
        THEN Return(r, disk, Did(r, "CreateTemp"),
                    respondWithError(StatusInternalServerError,
                                     "Couldn't create temporary file"))
        ELSE Continue(r, "Copy",
                      [loc[r] EXCEPT !.tempFile = TempName(r),
                                     !.defers = @ \o <<[op |-> "Close", arg |-> TempName(r)],
                                                       [op |-> "Remove", arg |-> TempName(r)]>>],
                      WriteFile(disk, TempName(r), [kind |-> "empty", of |-> r]),
                      Did(r, "CreateTemp"))
    /\ UNCHANGED <<db, s3, updLog>>

\* _, err = io.Copy(tempFile, file)
Copy(r) ==
    /\ pc[r] = "Copy"
    /\ \E ok \in BOOLEAN :
        IF ~ok
        THEN Return(r, WriteFile(disk, loc[r].tempFile, [kind |-> "partial upload", of |-> r]),
                    Did(r, "Copy"),
                    respondWithError(StatusInternalServerError,
                                     "Couldn't write to temporary file"))
        ELSE Continue(r, "Probe", loc[r],
                      WriteFile(disk, loc[r].tempFile, [kind |-> "upload", of |-> r]),
                      Did(r, "Copy"))
    /\ UNCHANGED <<db, s3, updLog>>

\* What ffprobe reports for the staged file in a pipeline run.
ProbeOuts ==
    {ProbeOut(k, 0, 0) : k \in {"runError", "badJSON", "noStreams"}}
        \cup {ProbeOut("streams", d[1], d[2]) : d \in PipeDims}

\* Probe with the error of getVideoAspectRatio dropped: the pipeline goes on
\* with an empty aspect label.
ProbeIgnoreErr(r) ==
    /\ pc[r] = "Probe"
    /\ \E out \in ProbeOuts :
        LET res == getVideoAspectRatio(out)
            h == [Did(r, "Probe") EXCEPT
                     !.probe = out.kind,
                     !.dims = IF out.kind = "streams" THEN <<out.width, out.height>> ELSE <<>>]
        IN  Continue(r, "Remux", [loc[r] EXCEPT !.aspectRatio = res.ratio], disk, h)
    /\ UNCHANGED <<db, s3, updLog>>

\* aspectRatio, err := getVideoAspectRatio(tempFile.Name())
Probe(r) ==
    /\ pc[r] = "Probe"
    /\ \E out \in ProbeOuts :
        LET res == getVideoAspectRatio(out)
            h == [Did(r, "Probe") EXCEPT
                     !.probe = out.kind,
                     !.dims = IF out.kind = "streams" THEN <<out.width, out.height>> ELSE <<>>]
        IN  IF res.err # ""
            THEN Return(r, disk, h,
                        respondWithError(StatusInternalServerError,
                                         "Couldn't determine video aspect ratio"))
            ELSE Continue(r, "Remux", [loc[r] EXCEPT !.aspectRatio = res.ratio], disk, h)
    /\ UNCHANGED <<db, s3, updLog>>

\* processedFilePath, err := processVideoForFastStart(tempFile.Name());
\* defer os.Remove(processedFilePath).  ffmpeg writes outputPath; when it
\* exits non-zero it may or may not have created the file already.
Remux(r) ==
    /\ pc[r] = "Remux"
    /\ \E ffmpegOk \in BOOLEAN, created \in BOOLEAN :
        LET res == processVideoForFastStart(loc[r].tempFile, ffmpegOk)
            out == OutputPath(loc[r].tempFile)
        IN  IF res.err # ""
            THEN Return(r,
                        IF created
                        THEN WriteFile(disk, out, [kind |-> "partial faststart", of |-> r])
                        ELSE disk,
                        Did(r, "Remux"),
                        respondWithError(StatusInternalServerError,
                                         "Couldn't process video for fast start"))
            ELSE /\ created
                 /\ Continue(r, "OpenProcessed",
                             [loc[r] EXCEPT !.processedFilePath = res.path,
                                            !.defers = Append(@, [op |-> "Remove",
                                                                  arg |-> res.path])],
                             WriteFile(disk, out, [kind |-> "faststart", of |-> r]),
                             Did(r, "Remux"))
    /\ UNCHANGED <<db, s3, updLog>>

\* processedFile, err := os.Open(processedFilePath); defer processedFile.Close();
\* then the switch that sets prefix.
OpenProcessed(r) ==
    /\ pc[r] = "OpenProcessed"
    /\ \E ok \in BOOLEAN :
        IF ~ok
        THEN Return(r, disk, Did(r, "OpenProcessed"),
                    respondWithError(StatusInternalServerError,
                                     "Couldn't open processed file"))
        ELSE Continue(r, "Seek",
                      [loc[r] EXCEPT !.prefix = PrefixOf(loc[r].aspectRatio),
                                     !.defers = Append(@, [op |-> "Close",
                                                           arg |-> loc[r].processedFilePath])],
                      disk, Did(r, "OpenProcessed"))
    /\ UNCHANGED <<db, s3, updLog>>

\* _, err = tempFile.Seek(0, io.SeekStart)
Seek(r) ==
    /\ pc[r] = "Seek"
    /\ \E ok \in BOOLEAN :
        IF ~ok
        THEN Return(r, disk, Did(r, "Seek"),
                    respondWithError(StatusInternalServerError,
                                     "Couldn't reset file pointer"))
        ELSE Continue(r, "GenKey", loc[r], disk, Did(r, "Seek"))
    /\ UNCHANGED <<db, s3, updLog>>

\* _, err = rand.Read(randomBytes); randomString; s3Key
GenKey(r) ==
    /\ pc[r] = "GenKey"
    /\ \E ok \in BOOLEAN, randomString \in RandomStrings :
        IF ~ok
        THEN Return(r, disk, Did(r, "GenKey"),
                    respondWithError(StatusInternalServerError,
                                     "Couldn't generate random key"))
        ELSE Continue(r, "PutObject",
                      [loc[r] EXCEPT !.s3Key = S3Key(loc[r].prefix, randomString)],
                      disk, Did(r, "GenKey"))
    /\ UNCHANGED <<db, s3, updLog>>

\* The PutObjectInput with the staged original as Body, as before the remux
\* step was added.
PutObjectInputOriginal(r) ==
    [Bucket |-> s3Bucket, Key |-> loc[r].s3Key,
     Body |-> disk[loc[r].tempFile], ContentType |-> loc[r].mediaType]

\* The s3.PutObjectInput the handler builds: Body is the open processedFile.
PutObjectInput(r) ==
    [Bucket |-> s3Bucket, Key |-> loc[r].s3Key,
     Body |-> disk[loc[r].processedFilePath], ContentType |-> loc[r].mediaType]

\* PutObject as it would be if the upload of the staged original had been kept
\* next to the upload of the processed file: two PutObject calls.
PutObjectTwice(r) ==
    /\ pc[r] = "PutObject"
    /\ \E ok \in BOOLEAN :
        LET in == PutObjectInput(r)
            h == [Did(r, "PutObject") EXCEPT !.puts = @ + 2, !.put = <<in>>]
        IN  IF ~ok
            THEN /\ Return(r, disk, h,
                           respondWithError(StatusInternalServerError,
                                            "Couldn't upload to S3"))
                 /\ s3' = s3
            ELSE /\ Continue(r, "UpdateVideo", loc[r], disk, [h EXCEPT !.putOk = TRUE])
                 /\ s3' = {o \in s3 : ~(o.Bucket = in.Bucket /\ o.Key = in.Key)}
                             \cup {[Bucket |-> in.Bucket, Key |-> in.Key, Body |-> b,
                                    ContentType |-> in.ContentType, by |-> r] :
                                   b \in {in.Body, disk[loc[r].tempFile]}}
    /\ UNCHANGED <<db, updLog>>

\* PutObject with the error of the Put not checked: the handler goes on to
\* update the record although nothing was stored.
PutObjectIgnoreErr(r) ==
    /\ pc[r] = "PutObject"
    /\ \E ok \in BOOLEAN :
        LET in == PutObjectInput(r)
            h == [Did(r, "PutObject") EXCEPT !.puts = @ + 1, !.put = <<in>>]
        IN  IF ~ok
            THEN /\ Continue(r, "UpdateVideo", loc[r], disk, h)
                 /\ s3' = s3
            ELSE /\ Continue(r, "UpdateVideo", loc[r], disk, [h EXCEPT !.putOk = TRUE])
                 /\ s3' = {o \in s3 : ~(o.Bucket = in.Bucket /\ o.Key = in.Key)}
                             \cup {[Bucket |-> in.Bucket, Key |-> in.Key, Body |-> in.Body,
                                    ContentType |-> in.ContentType, by |-> r]}
    /\ UNCHANGED <<db, updLog>>

\* _, err = cfg.s3Client.PutObject(context.TODO(), &s3.PutObjectInput{...})
PutObject(r) ==
    /\ pc[r] = "PutObject"
    /\ \E ok \in BOOLEAN :
        LET in == PutObjectInput(r)
            h == [Did(r, "PutObject") EXCEPT !.puts = @ + 1, !.put = <<in>>]
        IN  IF ~ok
            THEN /\ Return(r, disk, h,
                           respondWithError(StatusInternalServerError,
                                            "Couldn't upload to S3"))
                 /\ s3' = s3
            ELSE /\ Continue(r, "UpdateVideo", loc[r], disk, [h EXCEPT !.putOk = TRUE])
                 /\ s3' = {o \in s3 : ~(o.Bucket = in.Bucket /\ o.Key = in.Key)}
                             \cup {[Bucket |-> in.Bucket, Key |-> in.Key, Body |-> in.Body,
                                    ContentType |-> in.ContentType, by |-> r]}
    /\ UNCHANGED <<db, updLog>>

\* video.VideoURL = &videoURL; err = cfg.db.UpdateVideo(video)
UpdateVideo(r) ==
    /\ pc[r] = "UpdateVideo"
    /\ \E ok \in BOOLEAN :
        LET video == [loc[r].video EXCEPT !.VideoURL = <<VideoURLOf(s3Bucket, loc[r].s3Key)>>]
            h == [Did(r, "UpdateVideo") EXCEPT !.updates = @ + 1]
        IN  IF ~ok
            THEN /\ Return(r, disk, h,
                           respondWithError(StatusInternalServerError,
                                            "Couldn't update video"))
                 /\ UNCHANGED <<db, updLog>>
            ELSE /\ Continue(r, "Sign", [loc[r] EXCEPT !.video = video], disk, h)
                 /\ db' = [db EXCEPT ![video.ID] = video]
                 /\ updLog' = Append(updLog, [by |-> r, user |-> loc[r].userID,
                                              vid |-> video.ID, url |-> video.VideoURL])
    /\ UNCHANGED s3

\* signedVideo, err := cfg.dbVideoToSignedVideo(video);
\* respondWithJSON(w, http.StatusOK, signedVideo)
Sign(r) ==
    /\ pc[r] = "Sign"
    /\ \E presignOk \in BOOLEAN :
        LET res == dbVideoToSignedVideo(loc[r].video, presignOk)
        IN  IF res.err # ""
            THEN Return(r, disk, Did(r, "Sign"),
                        respondWithError(StatusInternalServerError,
                                         "Couldn't generate presigned URL"))
            ELSE Return(r, disk, Did(r, "Sign"), respondWithJSON(StatusOK, res.video))
    /\ UNCHANGED <<db, s3, updLog>>

Next ==
    \E r \in Reqs :
        \/ Begin(r)
        \/ ParseID(r)
        \/ GetBearerToken(r)
        \/ ValidateJWT(r)
        \/ GetVideo(r)
        \/ CheckOwner(r)
        \/ ParseMultipartForm(r)
        \/ FormFile(r)
        \/ CheckContentType(r)
        \/ CreateTemp(r)
        \/ Copy(r)
        \/ Probe(r)
        \/ Remux(r)
        \/ OpenProcessed(r)
        \/ Seek(r)
        \/ GenKey(r)
        \/ PutObject(r)
        \/ UpdateVideo(r)
        \/ Sign(r)

Spec == Init /\ [][Next]_vars

\* --------------------------------------------------- classifier, all inputs
\* Widths and heights the first stream may report: every pair within the
\* bound, and the pairs the end-to-end scenarios and band edges name.
ClassDims ==
    ((-MaxDim)..MaxDim) \X ((-MaxDim)..MaxDim)
        \cup {<<1280, 720>>, <<720, 1280>>, <<549999, 1000000>>, <<170, 100>>,
              <<180, 100>>, <<1801, 1000>>, <<1699, 1000>>, <<581, 1000>>}

ClassInit ==
    /\ PipeInit
    /\ \E d \in ClassDims : cw = d[1] /\ ch = d[2]
    /\ cres = <<>>
    /\ din = <<>> /\ dout = <<>>

\* The handler's use of the probe: getVideoAspectRatio on a first stream of
\* cw x ch, then the prefix switch when it returned no error.
Classify ==
    /\ cres = <<>>
    /\ LET res == getVideoAspectRatio(ProbeOut("streams", cw, ch))
       IN  cres' = <<[err |-> res.err,
                      prefix |-> IF res.err = "" THEN PrefixOf(res.ratio) ELSE <<>>]>>
    /\ UNCHANGED <<pipeVars, cw, ch, decVars>>

ClassNext == Classify

SpecClassify == ClassInit /\ [][ClassNext]_vars

\* ------------------------------------------------- locator decoding, all inputs
Alphabet == {"b", "k", Comma}
Strs(n) == UNION {[1..k -> Alphabet] : k \in 0..n}
\* A persisted VideoURL: nil, or a string of at most MaxLen characters.
Locators == {<<>>} \cup {<<str>> : str \in Strs(MaxLen)}

DecodeInit ==
    /\ PipeInit
    /\ cw = 0 /\ ch = 0 /\ cres = <<>>
    /\ din \in Locators
    /\ dout = <<>>

\* cfg.dbVideoToSignedVideo(video) on a record whose VideoURL is din.
Decode ==
    /\ dout = <<>>
    /\ \E presignOk \in BOOLEAN :
        dout' = <<dbVideoToSignedVideo([ID |-> "v1", UserID |-> "u1", VideoURL |-> din],
                                       presignOk)>>
    /\ UNCHANGED <<pipeVars, classVars, din>>

DecodeNext == Decode

SpecDecode == DecodeInit /\ [][DecodeNext]_vars

\* ================================================================== claims
Done(r) == pc[r] = "done"
Code(r) == resp[r][1].code
Msg(r) == resp[r][1].msg
Count(trace, step) == Cardinality({i \in DOMAIN trace : trace[i] = step})
InTrace(r, step) == Count(hist[r].trace, step) > 0
Pos(trace, step) == CHOOSE i \in DOMAIN trace : trace[i] = step
UpdatesBy(r) == {i \in DOMAIN updLog : updLog[i].by = r}
ObjectsBy(r) == {o \in s3 : o.by = r}

\* C1: once an invocation of handlerUploadVideo has returned, whatever step
\* failed or on success, neither its staging file nor its remux output at
\* '<staging path>.processing' exists on local disk, also when the remux tool
\* had created its output before it reported failure.
C1_NoStagedFileAfterReturn ==
    \A r \in Reqs :
        Done(r) =>
            /\ TempName(r) \notin DOMAIN disk
            /\ OutputPath(TempName(r)) \notin DOMAIN disk

\* C2: a request authenticated as someone other than the record's owner is
\* rejected with Forbidden (403), writes nothing to the object store and does
\* not update the record; every locator change was made by a request
\* authenticated as the record's owner.
C2_NonOwnerForbidden ==
    /\ \A r \in Reqs :
        (Done(r) /\ InTrace(r, "CheckOwner") /\ hist[r].user # OwnerOf(hist[r].vid)) =>
            /\ Code(r) = 403
            /\ hist[r].puts = 0 /\ ObjectsBy(r) = {}
            /\ hist[r].updates = 0 /\ UpdatesBy(r) = {}
    /\ \A i \in DOMAIN updLog : updLog[i].user = OwnerOf(updLog[i].vid)

\* C3: an upload that succeeds (owner, video/mp4, within the size bound, every
\* collaborator succeeding) has read the record exactly once, then made exactly
\* one object-store Put and then exactly one UpdateVideo call; no invocation
\* ever makes a second Put or a second update.
C3_ExactlyOnePutOneUpdate ==
    \A r \in Reqs :
        /\ hist[r].puts <= 1 /\ hist[r].updates <= 1
        /\ Count(hist[r].trace, "PutObject") <= 1
        /\ Count(hist[r].trace, "UpdateVideo") <= 1
        /\ (Done(r) /\ Code(r) = StatusOK) =>
            /\ hist[r].gets = 1 /\ hist[r].puts = 1 /\ hist[r].updates = 1
            /\ Count(hist[r].trace, "GetVideo") = 1
            /\ Cardinality(UpdatesBy(r)) = 1
            /\ Pos(hist[r].trace, "GetVideo") < Pos(hist[r].trace, "PutObject")
            /\ Pos(hist[r].trace, "PutObject") < Pos(hist[r].trace, "UpdateVideo")

\* C3 witness: an invocation has answered 200 after its Put and its update.
C3_Witness ==
    \E r \in Reqs : Done(r) /\ Code(r) = StatusOK /\ hist[r].puts = 1 /\ hist[r].updates = 1

\* C4: a request whose body exceeds the 1 GiB bound is rejected with
\* PayloadTooLarge (413) without os.CreateTemp being reached and without any
\* object-store write or record update.
C4_OversizePayloadTooLarge ==
    \A r \in Reqs :
        hist[r].bodyLen > MaxUploadBytes =>
            /\ Done(r)
            /\ Code(r) = 413
            /\ ~InTrace(r, "CreateTemp")
            /\ hist[r].puts = 0 /\ hist[r].updates = 0

\* C5: an upload whose declared content type of the 'video' part is not exactly
\* video/mp4 is rejected with UnsupportedMediaType (415) and a descriptive
\* error, before the staging file is created and before probe, remux, Put or
\* record update.
C5_NonMp4Unsupported ==
    \A r \in Reqs :
        hist[r].declared \notin {"none", "video/mp4"} =>
            /\ Done(r)
            /\ Code(r) = 415
            /\ Msg(r) # ""
            /\ ~InTrace(r, "CreateTemp") /\ ~InTrace(r, "Probe") /\ ~InTrace(r, "Remux")
            /\ hist[r].puts = 0 /\ hist[r].updates = 0

\* w/h lies in [lo/100, hi/100], in hundredths, for h # 0.
InBand(w, h, lo, hi) ==
    LET n == IF h > 0 THEN 100 * w ELSE (-100) * w
        d == IF h > 0 THEN h ELSE -h
    IN  lo * d <= n /\ n <= hi * d

\* C6: for non-zero probed width w and height h with r = w/h, the key prefix
\* is 'landscape' exactly when 1.70 <= r <= 1.80, 'portrait' exactly when
\* 0.55 <= r <= 0.58 and 'other' otherwise; r = 1.70 and r = 1.80 give
\* landscape and r = 0.549999 gives other.
C6_ClassifyBands ==
    (cres # <<>> /\ cw # 0 /\ ch # 0) =>
        /\ cres[1].err = ""
        /\ cres[1].prefix = Landscape <=> InBand(cw, ch, 170, 180)
        /\ cres[1].prefix = Portrait <=> InBand(cw, ch, 55, 58)
        /\ cres[1].prefix = Other <=>
               (~InBand(cw, ch, 170, 180) /\ ~InBand(cw, ch, 55, 58))
        /\ (<<cw, ch>> \in {<<17, 10>>, <<170, 100>>, <<9, 5>>, <<180, 100>>}) =>
               cres[1].prefix = Landscape
        /\ (<<cw, ch>> = <<549999, 1000000>>) => cres[1].prefix = Other

\* C6 witness: a stream at the lower edge r = 1.70 has been classified, as
\* landscape.
C6_Witness ==
    cres # <<>> /\ cw = 17 /\ ch = 10 /\ cres[1].prefix = Landscape

CommaCount(str) == Cardinality({i \in 1..Len(str) : str[i] = Comma})
CommaFree == {str \in Strs(MaxLen) : CommaCount(str) = 0}
FormatError == "invalid video URL format"

\* 'bucket,key' with comma-free bucket and key decodes to (bucket, key).
RoundTrip ==
    \A b \in CommaFree, k \in CommaFree :
        din = <<VideoURLOf(b, k)>> =>
            /\ dout[1].presigned = <<b, k>>
            /\ dout[1].err # FormatError

Steps ==
    <<"Begin", "ParseID", "GetBearerToken", "ValidateJWT", "GetVideo", "CheckOwner",
      "ParseMultipartForm", "FormFile", "CheckContentType", "CreateTemp", "Copy",
      "Probe", "Remux", "OpenProcessed", "Seek", "GenKey", "PutObject", "UpdateVideo",
      "Sign">>

IsPrefix(t, u) == Len(t) <= Len(u) /\ \A i \in 1..Len(t) : t[i] = u[i]
LastStep(r) == hist[r].trace[Len(hist[r].trace)]

\* The step whose failure an error message reports.
StepOfMsg(msg) ==
    CASE msg = "Invalid video ID" -> "ParseID"
      [] msg = "Couldn't find JWT" -> "GetBearerToken"
      [] msg = "Couldn't validate JWT" -> "ValidateJWT"
      [] msg = "Couldn't get video" -> "GetVideo"
      [] msg = "User not authorized to update this video" -> "CheckOwner"
      [] msg = "Couldn't parse form" -> "ParseMultipartForm"
      [] msg = "Couldn't get video file from form" -> "FormFile"
      [] msg = "Invalid Content-Type header" -> "CheckContentType"
      [] msg = "Invalid file type. Only MP4 videos are allowed" -> "CheckContentType"
      [] msg = "Couldn't create temporary file" -> "CreateTemp"
      [] msg = "Couldn't write to temporary file" -> "Copy"
      [] msg = "Couldn't determine video aspect ratio" -> "Probe"
      [] msg = "Couldn't process video for fast start" -> "Remux"
      [] msg = "Couldn't open processed file" -> "OpenProcessed"
      [] msg = "Couldn't reset file pointer" -> "Seek"
      [] msg = "Couldn't generate random key" -> "GenKey"
      [] msg = "Couldn't upload to S3" -> "PutObject"
      [] msg = "Couldn't update video" -> "UpdateVideo"
      [] msg = "Couldn't generate presigned URL" -> "Sign"
      [] OTHER -> "none"

\* ffprobe exited non-zero, or its output gave no usable first stream.
ProbeFailed(r) ==
    /\ hist[r].probe # ""
    /\ \/ hist[r].probe # "streams"
       \/ hist[r].dims[1] = 0
       \/ hist[r].dims[2] = 0

\* C8: every step fails fast: the steps an invocation has executed are an
\* initial stretch of the handler's statements, each once (nothing retried),
\* and an error response reports the last step executed; when the probe fails
\* the handler has returned the probe failure with no remux, no Put and no
\* UpdateVideo, so the record is unmodified.
C8_FailFast ==
    \A r \in Reqs :
        /\ IsPrefix(hist[r].trace, Steps)
        /\ resp[r] # <<>> => Done(r)
        /\ (Done(r) /\ Code(r) # StatusOK) => StepOfMsg(Msg(r)) = LastStep(r)
        /\ ProbeFailed(r) =>
            /\ Done(r)
            /\ Code(r) = StatusInternalServerError
            /\ Msg(r) = "Couldn't determine video aspect ratio"
            /\ LastStep(r) = "Probe"
            /\ ~InTrace(r, "Remux") /\ ~InTrace(r, "PutObject") /\ ~InTrace(r, "UpdateVideo")
            /\ hist[r].puts = 0 /\ ObjectsBy(r) = {}
            /\ hist[r].updates = 0 /\ UpdatesBy(r) = {}

\* C8 witness: ffprobe exited non-zero and the handler has returned the probe
\* failure.
C8_Witness ==
    \E r \in Reqs :
        /\ Done(r)
        /\ hist[r].probe = "runError"
        /\ Msg(r) = "Couldn't determine video aspect ratio"

FastStartOf(r) == [kind |-> "faststart", of |-> r]

\* C9: the body of every object-store Put is the remuxed file that
\* processVideoForFastStart produced for that invocation, never the staged
\* original; the Put carries the declared media type video/mp4; and Put is
\* reached only after a successful remux.
C9_PutRemuxed ==
    /\ \A r \in Reqs :
        /\ hist[r].put # <<>> =>
            /\ hist[r].put[1].Body = FastStartOf(r)
            /\ hist[r].put[1].ContentType = "video/mp4"
            /\ hist[r].put[1].ContentType = ParseMediaType(hist[r].declared).mediaType
        /\ InTrace(r, "PutObject") =>
            /\ hist[r].put # <<>>
            /\ InTrace(r, "Remux") /\ InTrace(r, "OpenProcessed")
            /\ Pos(hist[r].trace, "Remux") < Pos(hist[r].trace, "PutObject")
    /\ \A o \in s3 : o.Body = FastStartOf(o.by) /\ o.ContentType = "video/mp4"

\* C9 witness: an object has been stored whose body is the remuxed file.
C9_Witness ==
    \E o \in s3 : o.Body = FastStartOf(o.by) /\ hist[o.by].puts = 1

\* The orientation class of probed dimensions, as a key prefix.
ClassPrefix(dims) ==
    IF InBand(dims[1], dims[2], 170, 180) THEN Landscape
    ELSE IF InBand(dims[1], dims[2], 55, 58) THEN Portrait
    ELSE Other

KeyOf(r) == hist[r].put[1].Key
LastUpdateOf(v) ==
    LET is == {i \in DOMAIN updLog : updLog[i].vid = v}
    IN  CHOOSE i \in is : \A j \in is : j <= i

\* C10: the locator a successful ingestion persists is exactly
\* '<bucket>,<prefix>/<random>.mp4' with the configured bucket, the key of that
\* invocation's Put and the orientation class of the probed dimensions as
\* prefix (1280x720 landscape/, 720x1280 portrait/); the record holds the
\* locator, not the signed URL that the response carries.
C10_LocatorPersisted ==
    /\ \A i \in DOMAIN updLog :
        LET r == updLog[i].by
        IN  /\ hist[r].put # <<>>
            /\ updLog[i].url = <<s3Bucket \o <<Comma>> \o KeyOf(r)>>
            /\ \E rnd \in RandomStrings :
                KeyOf(r) = ClassPrefix(hist[r].dims) \o <<"/">> \o rnd \o <<".", "m", "p", "4">>
            /\ hist[r].dims = <<1280, 720>> => SubSeq(KeyOf(r), 1, 10) = Landscape \o <<"/">>
            /\ hist[r].dims = <<720, 1280>> => SubSeq(KeyOf(r), 1, 9) = Portrait \o <<"/">>
            /\ \E o \in s3 : o.Bucket = s3Bucket /\ o.Key = KeyOf(r)
    /\ \A v \in Videos :
        IF \E i \in DOMAIN updLog : updLog[i].vid = v
        THEN db[v].VideoURL = updLog[LastUpdateOf(v)].url
        ELSE db[v].VideoURL = <<>>
    /\ \A r \in Reqs :
        (Done(r) /\ Code(r) = StatusOK) =>
            /\ UpdatesBy(r) # {}
            /\ \A i \in UpdatesBy(r) :
                /\ resp[r][1].video.VideoURL # updLog[i].url
                /\ resp[r][1].video.VideoURL =
                       <<generatePresignedURL(s3Bucket, KeyOf(r), HourSeconds, TRUE).url>>

\* C10 witness: a 1280x720 upload has succeeded and 'bkt,landscape/A.mp4' was
\* persisted for it.
C10_Witness ==
    \E i \in DOMAIN updLog :
        /\ hist[updLog[i].by].dims = <<1280, 720>>
        /\ updLog[i].url = <<s3Bucket \o <<Comma>> \o Landscape \o <<"/", "A", ".", "m", "p", "4">> >>
        /\ Done(updLog[i].by) /\ Code(updLog[i].by) = StatusOK

\* The steps that come before the body is parsed, in the reference order.
Preamble == <<"Begin", "ParseID", "GetBearerToken", "ValidateJWT", "GetVideo", "CheckOwner">>

\* The invocation was rejected by id parsing, authentication, record fetch or
\* the ownership check.
RejectedEarly(r) ==
    /\ Done(r)
    /\ LastStep(r) \in {"ParseID", "GetBearerToken", "ValidateJWT", "GetVideo", "CheckOwner"}

\* C11: the steps run in the order id parse, authenticate, fetch record,
\* ownership check, parse body: whenever the body has been read or a staging
\* file created, the ownership check has already been passed, and a request
\* rejected by id parsing, authentication, record fetch or the ownership
\* check has read no byte of the body and created no staging file.
C11_OwnerCheckBeforeBody ==
    \A r \in Reqs :
        /\ (InTrace(r, "ParseMultipartForm") \/ hist[r].bodyLen # 0
                \/ InTrace(r, "CreateTemp") \/ TempName(r) \in DOMAIN disk) =>
            /\ SubSeq(hist[r].trace, 1, Len(Preamble)) = Preamble
            /\ \A i \in 1..Len(Preamble) :
                Pos(hist[r].trace, Preamble[i]) < Pos(hist[r].trace, "ParseMultipartForm")
            /\ hist[r].vid \in Videos
            /\ hist[r].user = OwnerOf(hist[r].vid)
        /\ RejectedEarly(r) =>
            /\ ~InTrace(r, "ParseMultipartForm") /\ hist[r].bodyLen = 0
            /\ ~InTrace(r, "FormFile") /\ ~InTrace(r, "CreateTemp") /\ ~InTrace(r, "Copy")
            /\ TempName(r) \notin DOMAIN disk
            /\ OutputPath(TempName(r)) \notin DOMAIN disk

\* C11 witness: a non-owner has been rejected by the ownership check without
\* its body having been read.
C11_Witness ==
    \E r \in Reqs :
        /\ Done(r) /\ LastStep(r) = "CheckOwner"
        /\ hist[r].user # OwnerOf(hist[r].vid)
        /\ hist[r].bodyLen = 0

\* C12: under any interleaving of invocations and any step failures, every
\* locator an invocation has written to a record names the key of a Put that
\* the same invocation completed successfully before the update, and a record
\* never points at a key that is not in the object store.
C12_LocatorNamesUploadedKey ==
    /\ \A i \in DOMAIN updLog :
        LET r == updLog[i].by
        IN  /\ hist[r].putOk
            /\ hist[r].put # <<>>
            /\ updLog[i].url = <<hist[r].put[1].Bucket \o <<Comma>> \o hist[r].put[1].Key>>
            /\ InTrace(r, "PutObject") /\ InTrace(r, "UpdateVideo")
            /\ Pos(hist[r].trace, "PutObject") < Pos(hist[r].trace, "UpdateVideo")
            /\ \E o \in s3 : o.Bucket = hist[r].put[1].Bucket /\ o.Key = hist[r].put[1].Key
    /\ \A r \in Reqs : (pc[r] \in {"UpdateVideo", "Sign"} \/ InTrace(r, "UpdateVideo")) => hist[r].putOk
    /\ \A v \in Videos :
        db[v].VideoURL # <<>> =>
            \E o \in s3 : db[v].VideoURL = <<o.Bucket \o <<Comma>> \o o.Key>>

\* C12 witness: two invocations for the same video are in flight together,
\* each having completed its Put and written its locator, with different keys.
C12_Witness ==
    \E r1 \in Reqs, r2 \in Reqs :
        /\ r1 # r2
        /\ pc[r1] = "Sign" /\ pc[r2] = "Sign"
        /\ hist[r1].vid = hist[r2].vid
        /\ UpdatesBy(r1) # {} /\ UpdatesBy(r2) # {}
        /\ hist[r1].put[1].Key # hist[r2].put[1].Key

====
